---- MODULE Spec2Model ----
(***************************************************************************)
(* Model of the event dispatcher generated by the event! macro of eventd   *)
(* (src/src/lib.rs): a Slab of boxed handlers with subscribe, unsubscribe  *)
(* and emit.  The Slab is the slab crate's: a vector of entries, each      *)
(* Occupied(value) or Vacant(next free index), and the head `next` of the  *)
(* free list.  Keys are 0-based as in the code; the TLA+ sequence holding  *)
(* the entries is 1-based, so the entry of key k is entries[k + 1].        *)
(***************************************************************************)
EXTENDS Naturals, Sequences, FiniteSets

\* ---------------------------------------------------------------- bounds
MaxCalls == 4       \* subscribe and emit calls in one behaviour
NumThreads == 2     \* threads that may run emit at the same time

\* ------------------------------------------------------ program constants
Expected == 42      \* the value tests::test_event asserts on
ByteMod == 256      \* arguments of the tests are u8

Threads == 1..NumThreads
\* Emitted values: the one the asserting handler accepts and one it rejects.
Args == {Expected, Expected + 1}
\* Keys a caller may present to a slab s: every allocated index, and the
\* first index beyond them, which stands for all out-of-range indices.
Keys(s) == 0..Len(s.entries)

\* Handler closures: "mutate" counts its calls and changes the argument it
\* was given, "assert" counts its calls and panics unless the argument is
\* Expected.
Kinds == {"mutate", "assert"}

NoHandler == [id |-> 0, kind |-> "none"]

Idle == [op |-> "none", key |-> 0, res |-> "none", arg |-> 0, trace |-> <<>>]

VARIABLES
  handlers,   \* the Slab: [entries, next]
  pc,         \* per thread: "idle", "emit" (inside the for loop), "panic"
  pos,        \* per thread: how many items the slab iterator has yielded
  sent,       \* per thread: the value the caller passed to emit
  arg,        \* per thread: emit's own argument variable, cloned per handler
  trace,      \* per thread: invocations made by the running emit
  calls,      \* per handler id: how many times it has been invoked
  emits,      \* number of emit calls made
  issued,     \* per handler id: the key of the token subscribe returned
  live,       \* ids subscribed and not since unsubscribed with Ok on their key
  okUnsubs,   \* number of unsubscribe calls that returned Ok
  peak,       \* largest number of simultaneously subscribed handlers so far
  ret,        \* per handler id: emits that returned while it was subscribed
  cut,        \* per handler id: emits that panicked while it was subscribed
  last,       \* the call that finished last, with its result
  prev,       \* the call that finished before it, kept when it was an
              \* emit or an unsubscribe that returned Ok; else Idle
  other       \* the Slab of a second dispatcher instance

vars == <<handlers, pc, pos, sent, arg, trace, calls, emits, issued, live,
          okUnsubs, peak, ret, cut, last, prev, other>>

\* ------------------------------------------------------------------ Slab
Vacant(n) == [occ |-> FALSE, nxt |-> n, val |-> NoHandler]
Occupied(v) == [occ |-> TRUE, nxt |-> 0, val |-> v]

SlabNew == [entries |-> <<>>, next |-> 0]

SlabContains(s, key) == key < Len(s.entries) /\ s.entries[key + 1].occ

SlabInsert_append(s, v) ==
  [entries |-> Append(s.entries, Occupied(v)),
   next |-> Len(s.entries) + 1, key |-> Len(s.entries)]

\* insert: the key is the head of the free list; it is pushed when it is the
\* vector's length and otherwise taken from the vacant entry it names.
SlabInsert(s, v) ==
  IF s.next = Len(s.entries)
    THEN [entries |-> Append(s.entries, Occupied(v)),
          next |-> s.next + 1, key |-> s.next]
    ELSE [entries |-> [s.entries EXCEPT ![s.next + 1] = Occupied(v)],
          next |-> s.entries[s.next + 1].nxt, key |-> s.next]

SlabRemove_leak(s, key) ==
  [entries |-> [s.entries EXCEPT ![key + 1] = Vacant(s.next)], next |-> s.next]

\* remove of an occupied key: the entry becomes the head of the free list.
SlabRemove(s, key) ==
  [entries |-> [s.entries EXCEPT ![key + 1] = Vacant(s.next)], next |-> key]

OccupiedKeys(s) == {k \in 0..(Len(s.entries) - 1) : s.entries[k + 1].occ}

\* the keys from p on, in the order of the entries vector, vacant ones
\* filtered out.
RECURSIVE KeysFrom(_, _)
KeysFrom(s, p) ==
  IF p >= Len(s.entries) THEN <<>>
  ELSE IF s.entries[p + 1].occ THEN <<p>> \o KeysFrom(s, p + 1)
  ELSE KeysFrom(s, p + 1)

Reverse(q) == [i \in 1..Len(q) |-> q[Len(q) + 1 - i]]

\* the keys ordered by the age of the handler they hold, oldest first.
RECURSIVE ByAge(_, _)
ByAge(s, ks) ==
  IF ks = {} THEN <<>>
  ELSE LET k == CHOOSE a \in ks :
                  \A b \in ks : s.entries[a + 1].val.id <= s.entries[b + 1].val.id
       IN <<k>> \o ByAge(s, ks \ {k})

SlabIter_rev(s) == Reverse(KeysFrom(s, 0))

SlabIter_byAge(s) == ByAge(s, OccupiedKeys(s))

\* the sequence of keys the iterator of `for (_, handler) in &self.handlers`
\* yields.
SlabIter(s) == KeysFrom(s, 0)

\* ----------------------------------------------------------- dispatcher
subscribe_lenKey(s, handler) ==
  LET r == SlabInsert(s, handler)
  IN [slab |-> [entries |-> r.entries, next |-> r.next],
      key |-> Cardinality(OccupiedKeys(s))]

subscribe(s, handler) ==
  LET r == SlabInsert(s, handler)
  IN [slab |-> [entries |-> r.entries, next |-> r.next], key |-> r.key]

unsubscribe_noRemove(s, key) ==
  IF SlabContains(s, key)
    THEN [slab |-> s, res |-> "Ok"]
    ELSE [slab |-> s, res |-> "SubscriptionMissing"]

unsubscribe_okAlways(s, key) ==
  IF SlabContains(s, key)
    THEN [slab |-> SlabRemove(s, key), res |-> "Ok"]
    ELSE [slab |-> s, res |-> "Ok"]

unsubscribe_noCheck(s, key) ==
  [slab |-> IF key < Len(s.entries) THEN SlabRemove(s, key) ELSE s,
   res |-> IF SlabContains(s, key) THEN "Ok" ELSE "SubscriptionMissing"]

unsubscribe(s, key) ==
  IF SlabContains(s, key)
    THEN [slab |-> SlabRemove(s, key), res |-> "Ok"]
    ELSE [slab |-> s, res |-> "SubscriptionMissing"]

\* A handler run on the value x it was given: what it observed, what its
\* own copy holds when it is done, and whether it returned.
Invoke(kind, x) ==
  [seen |-> x,
   local |-> IF kind = "mutate" THEN (x + 1) % ByteMod ELSE x,
   ok |-> (kind = "assert") => (x = Expected)]

ArgAfterCall_shared(own, handlerLocal) == handlerLocal

\* emit's argument after a handler ran: the handler was given a clone, so
\* whatever it did to its copy, emit's value is untouched.
ArgAfterCall(own, handlerLocal) == own

SlabAfterCall_oneShot(s, key) == SlabRemove(s, key)

\* The slab after one handler invocation of emit: iteration only reads it.
SlabAfterCall(s, key) == s

AfterHandler_isolated(ok) == "emit"

AfterHandler_hang(ok) == IF ok THEN "emit" ELSE "hung"

\* where emit continues after a handler call: with the next turn of the
\* loop when the handler returned, by unwinding when it panicked.
AfterHandler(ok) == IF ok THEN "emit" ELSE "panic"

LoopDone_early(s, p) == p + 1 >= Len(SlabIter(s))

\* the for loop of emit ends when the iterator has yielded every item.
LoopDone(s, p) == p >= Len(SlabIter(s))

Kept(c) ==
  IF c.op = "emit" \/ (c.op = "unsubscribe" /\ c.res = "Ok") THEN c ELSE Idle

AllIdle == \A t \in Threads : pc[t] = "idle"

\* what a behaviour has consumed: calls of subscribe and emit, and slots
\* allocated in the second dispatcher
Used == emits + Len(issued) + Len(other.entries)

Init ==
  /\ handlers = SlabNew
  /\ pc = [t \in Threads |-> "idle"]
  /\ pos = [t \in Threads |-> 0]
  /\ sent = [t \in Threads |-> Expected]
  /\ arg = [t \in Threads |-> Expected]
  /\ trace = [t \in Threads |-> <<>>]
  /\ calls = <<>>
  /\ emits = 0
  /\ issued = <<>>
  /\ live = {}
  /\ okUnsubs = 0
  /\ peak = 0
  /\ ret = <<>>
  /\ cut = <<>>
  /\ last = Idle
  /\ prev = Idle
  /\ other = SlabNew

\* subscribe takes &mut self: no emit can be running.
Subscribe(kind) ==
  /\ AllIdle
  /\ Used < MaxCalls
  /\ LET id == Len(issued) + 1
         r == subscribe(handlers, [id |-> id, kind |-> kind])
     IN /\ handlers' = r.slab
        /\ issued' = Append(issued, r.key)
        /\ calls' = Append(calls, 0)
        /\ ret' = Append(ret, 0)
        /\ cut' = Append(cut, 0)
        /\ live' = live \cup {id}
        /\ peak' = IF Cardinality(live') > peak THEN Cardinality(live') ELSE peak
        /\ last' = [Idle EXCEPT !.op = "subscribe", !.key = r.key, !.res = "Ok"]
  /\ prev' = Kept(last)
  /\ UNCHANGED <<pc, pos, sent, arg, trace, emits, okUnsubs, other>>

\* unsubscribe takes &mut self; the key field of a token is public, so any
\* key may be presented.
Unsubscribe(key) ==
  /\ AllIdle
  /\ LET r == unsubscribe(handlers, key)
     IN /\ handlers' = r.slab
        /\ live' = IF r.res = "Ok" THEN {h \in live : issued[h] # key} ELSE live
        /\ okUnsubs' = IF r.res = "Ok" THEN okUnsubs + 1 ELSE okUnsubs
        /\ last' = [Idle EXCEPT !.op = "unsubscribe", !.key = key, !.res = r.res]
  /\ prev' = Kept(last)
  /\ UNCHANGED <<pc, pos, sent, arg, trace, calls, emits, issued, peak, ret, cut,
                 other>>

\* emit is entered: the iterator over the slab is created.
EmitCall(t, x) ==
  /\ pc[t] = "idle"
  /\ Used < MaxCalls
  /\ emits' = emits + 1
  /\ pc' = [pc EXCEPT ![t] = "emit"]
  /\ pos' = [pos EXCEPT ![t] = 0]
  /\ sent' = [sent EXCEPT ![t] = x]
  /\ arg' = [arg EXCEPT ![t] = x]
  /\ trace' = [trace EXCEPT ![t] = <<>>]
  /\ UNCHANGED <<handlers, calls, issued, live, okUnsubs, peak, ret, cut,
                 last, prev, other>>

\* one turn of the for loop: the next handler the iterator yields is called
\* with a clone of the argument; a panic leaves the loop.
EmitNext(t) ==
  /\ pc[t] = "emit"
  /\ ~LoopDone(handlers, pos[t])
  /\ LET k == SlabIter(handlers)[pos[t] + 1]
         h == handlers.entries[k + 1].val
         r == Invoke(h.kind, arg[t])
     IN /\ trace' = [trace EXCEPT ![t] =
              Append(@, [key |-> k, id |-> h.id, seen |-> r.seen])]
        /\ calls' = [calls EXCEPT ![h.id] = @ + 1]
        /\ arg' = [arg EXCEPT ![t] = ArgAfterCall(arg[t], r.local)]
        /\ pc' = [pc EXCEPT ![t] = AfterHandler(r.ok)]
        /\ handlers' = SlabAfterCall(handlers, k)
  /\ pos' = [pos EXCEPT ![t] = @ + 1]
  /\ UNCHANGED <<sent, emits, issued, live, okUnsubs, peak, ret, cut, last, prev,
                 other>>

Finished(t, res) ==
  [op |-> "emit", key |-> 0, res |-> res, arg |-> sent[t], trace |-> trace[t]]

\* the iterator is exhausted: emit returns.
EmitReturn(t) ==
  /\ pc[t] = "emit"
  /\ LoopDone(handlers, pos[t])
  /\ pc' = [pc EXCEPT ![t] = "idle"]
  /\ pos' = [pos EXCEPT ![t] = 0]
  /\ sent' = [sent EXCEPT ![t] = Expected]
  /\ arg' = [arg EXCEPT ![t] = Expected]
  /\ trace' = [trace EXCEPT ![t] = <<>>]
  /\ last' = Finished(t, "returned")
  /\ prev' = Kept(last)
  /\ ret' = [h \in 1..Len(ret) |-> IF h \in live THEN ret[h] + 1 ELSE ret[h]]
  /\ UNCHANGED <<handlers, calls, emits, issued, live, okUnsubs, peak, cut, other>>

\* a handler panicked: the panic unwinds out of emit to the caller.
EmitUnwind(t) ==
  /\ pc[t] = "panic"
  /\ pc' = [pc EXCEPT ![t] = "idle"]
  /\ pos' = [pos EXCEPT ![t] = 0]
  /\ sent' = [sent EXCEPT ![t] = Expected]
  /\ arg' = [arg EXCEPT ![t] = Expected]
  /\ trace' = [trace EXCEPT ![t] = <<>>]
  /\ last' = Finished(t, "panicked")
  /\ prev' = Kept(last)
  /\ cut' = [h \in 1..Len(cut) |-> IF h \in live THEN cut[h] + 1 ELSE cut[h]]
  /\ UNCHANGED <<handlers, calls, emits, issued, live, okUnsubs, peak, ret, other>>

\* One caller (the Fn and FnMut disciplines without Send + Sync): calls
\* follow one another on thread 1.
Next ==
  \/ \E kind \in Kinds : Subscribe(kind)
  \/ \E key \in Keys(handlers) : Unsubscribe(key)
  \/ \E x \in Args : EmitCall(1, x)
  \/ EmitNext(1)
  \/ EmitReturn(1)
  \/ EmitUnwind(1)

Spec == Init /\ [][Next]_vars

\* The thread inside emit keeps running: the loop of emit contains no wait,
\* lock or yield, so each of its steps is taken once it stays possible.
SpecFair ==
  /\ Spec
  /\ WF_vars(EmitNext(1))
  /\ WF_vars(EmitReturn(1))
  /\ WF_vars(EmitUnwind(1))

\* The Fn + Send + Sync discipline: emit takes &self, so several threads may
\* be inside emit at once; subscribe and unsubscribe still take &mut self.
NextShared ==
  \/ \E kind \in Kinds : Subscribe(kind)
  \/ \E key \in Keys(handlers) : Unsubscribe(key)
  \/ \E t \in Threads, x \in Args : EmitCall(t, x)
  \/ \E t \in Threads : EmitNext(t)
  \/ \E t \in Threads : EmitReturn(t)
  \/ \E t \in Threads : EmitUnwind(t)

SpecShared == Init /\ [][NextShared]_vars

\* A second dispatcher of the same type. Its handlers are never invoked
\* here; only its registry is followed.
OtherHandler == [id |-> 0, kind |-> "mutate"]

\* subscribe on the second dispatcher.
SubscribeOther ==
  /\ AllIdle
  /\ Used < MaxCalls
  /\ LET r == subscribe(other, OtherHandler)
     IN /\ other' = r.slab
        /\ last' = [Idle EXCEPT !.op = "other.subscribe", !.key = r.key,
                                !.res = "Ok"]
  /\ prev' = Kept(last)
  /\ UNCHANGED <<handlers, pc, pos, sent, arg, trace, calls, emits, issued, live,
                 okUnsubs, peak, ret, cut>>

\* unsubscribe on the second dispatcher: a Subscription is only a key, so a
\* token of either dispatcher may be presented.
UnsubscribeOther(key) ==
  /\ AllIdle
  /\ LET r == unsubscribe(other, key)
     IN /\ other' = r.slab
        /\ last' = [Idle EXCEPT !.op = "other.unsubscribe", !.key = key,
                                !.res = r.res]
  /\ prev' = Kept(last)
  /\ UNCHANGED <<handlers, pc, pos, sent, arg, trace, calls, emits, issued, live,
                 okUnsubs, peak, ret, cut>>

\* Two dispatchers used by one caller.
NextTwo ==
  \/ Next
  \/ SubscribeOther
  \/ \E key \in Keys(handlers) \cup Keys(other) : UnsubscribeOther(key)

SpecTwo == Init /\ [][NextTwo]_vars

\* ----------------------------------------------------------- properties
Ids(tr) == [i \in 1..Len(tr) |-> tr[i].id]

KeysOf(tr) == [i \in 1..Len(tr) |-> tr[i].key]

NoRepeats(q) == \A i, j \in 1..Len(q) : q[i] = q[j] => i = j

Range(q) == {q[i] : i \in 1..Len(q)}

HandlerIds == 1..Len(issued)

\* the call that finished last is an emit that returned (no handler failed)
Returned == last.op = "emit" /\ last.res = "returned"

\* this step is a call of unsubscribe
UnsubscribeStep == AllIdle /\ AllIdle' /\ last'.op = "unsubscribe"

\* this step is a call of subscribe
SubscribeStep == AllIdle /\ AllIdle' /\ last'.op = "subscribe"

\* C1: an emit that returns has invoked every handler that is subscribed
\* (subscribed, and no unsubscribe on its key has returned Ok since) exactly
\* once and no other handler; the number of invocations is the number of
\* occupied slots, so an emit on an empty dispatcher invokes nothing.
C1_EmitInvokesTheSubscribed ==
  Returned =>
    /\ Range(Ids(last.trace)) = live
    /\ NoRepeats(Ids(last.trace))
    /\ Len(last.trace) = Cardinality(OccupiedKeys(handlers))

C1_Witness ==
  /\ Returned
  /\ Len(last.trace) = 2
  /\ okUnsubs >= 1

\* C2: unsubscribe(token) returns Ok exactly when the slot at token.key is
\* occupied when it is called; on Ok that slot becomes unoccupied and every
\* other slot keeps its occupancy and its handler.
C2_UnsubscribeOkIffOccupied ==
  [][UnsubscribeStep =>
       LET key == last'.key
       IN /\ (last'.res = "Ok") <=> SlabContains(handlers, key)
          /\ last'.res = "Ok" =>
               /\ ~SlabContains(handlers', key)
               /\ Len(handlers'.entries) = Len(handlers.entries)
               /\ \A j \in Keys(handlers) \ {key} :
                    /\ SlabContains(handlers', j) <=> SlabContains(handlers, j)
                    /\ SlabContains(handlers, j) =>
                         handlers'.entries[j + 1].val = handlers.entries[j + 1].val
    ]_vars

C2_Witness ==
  /\ last.op = "unsubscribe"
  /\ last.res = "Ok"
  /\ Cardinality(OccupiedKeys(handlers)) = 2

\* C3: unsubscribe with a key whose slot is not occupied (removed before, or
\* beyond every allocated slot) returns SubscriptionMissing and leaves the
\* registry as it was: the same occupied slots with the same handlers, and
\* the same index for the next subscribe to return.
C3_MissingLeavesRegistry ==
  [][(UnsubscribeStep /\ ~SlabContains(handlers, last'.key)) =>
       /\ last'.res = "SubscriptionMissing"
       /\ OccupiedKeys(handlers') = OccupiedKeys(handlers)
       /\ handlers'.entries = handlers.entries
       /\ subscribe(handlers', NoHandler).key = subscribe(handlers, NoHandler).key
    ]_vars

C3_Witness ==
  /\ last.op = "unsubscribe"
  /\ last.res = "SubscriptionMissing"
  /\ last.key < Len(handlers.entries)
  /\ OccupiedKeys(handlers) # {}

\* C4: unsubscribe with the token of a handler that is still subscribed
\* returns Ok, and an unsubscribe with the same key right after it (no call
\* in between) returns SubscriptionMissing.
C4_SecondUnsubscribeMissing ==
  /\ [][(UnsubscribeStep /\ \E h \in live : issued[h] = last'.key) =>
          last'.res = "Ok"]_vars
  /\ []((/\ prev.op = "unsubscribe"
         /\ prev.res = "Ok"
         /\ last.op = "unsubscribe"
         /\ last.key = prev.key) => last.res = "SubscriptionMissing")

C4_Witness ==
  /\ prev.op = "unsubscribe"
  /\ prev.res = "Ok"
  /\ last.op = "unsubscribe"
  /\ last.key = prev.key
  /\ last.res = "SubscriptionMissing"
  /\ issued # <<>>

\* C5: once unsubscribe has returned Ok for the key of a handler h, no emit
\* invokes h again; and h's count is one per emit that returned while h was
\* subscribed, plus at most one per emit that a failing handler cut short
\* (so with no failure: emitted twice, unsubscribed, emitted twice, count 2).
C5_NoCallAfterUnsubscribe ==
  /\ [][\A h \in HandlerIds : h \notin live => calls'[h] = calls[h]]_vars
  /\ [](AllIdle => \A h \in HandlerIds :
          /\ ret[h] <= calls[h]
          /\ calls[h] <= ret[h] + cut[h])

C5_Witness ==
  /\ Returned
  /\ Len(last.trace) >= 1
  /\ prev.op = "unsubscribe"
  /\ \E h \in HandlerIds : h \notin live /\ calls[h] = 1 /\ cut[h] = 0

\* C6: while no unsubscribe has ever returned Ok, an emit that returns has
\* invoked the handlers in the order they were subscribed: h1, h2, ..., hn.
C6_RegistrationOrder ==
  (Returned /\ okUnsubs = 0) =>
    Ids(last.trace) = [i \in 1..Len(issued) |-> i]

C6_Witness ==
  /\ Returned
  /\ okUnsubs = 0
  /\ Len(last.trace) = 3

\* C7: emit invokes handlers in strictly ascending order of slot index, each
\* the handler its slot holds, and an emit that returns has visited exactly
\* the occupied slots; so a handler subscribed later into a reused lower
\* slot is invoked before older handlers in higher slots.
C7_AscendingSlotOrder ==
  /\ last.op = "emit" =>
       /\ \A i, j \in 1..Len(last.trace) :
            i < j => last.trace[i].key < last.trace[j].key
       /\ \A i \in 1..Len(last.trace) :
            /\ SlabContains(handlers, last.trace[i].key)
            /\ handlers.entries[last.trace[i].key + 1].val.id = last.trace[i].id
  /\ Returned => Range(KeysOf(last.trace)) = OccupiedKeys(handlers)

C7_Witness ==
  /\ Returned
  /\ \E i, j \in 1..Len(last.trace) :
       /\ i < j
       /\ last.trace[i].id > last.trace[j].id
       /\ issued[last.trace[i].id] < issued[last.trace[j].id]

\* C8: in one emit every invoked handler observes the value the caller
\* passed, also when a handler invoked before it changed the argument it
\* was given.
C8_ArgumentIsolation ==
  /\ \A t \in Threads : \A i \in 1..Len(trace[t]) : trace[t][i].seen = sent[t]
  /\ last.op = "emit" =>
       \A i \in 1..Len(last.trace) : last.trace[i].seen = last.arg

C8_Witness ==
  /\ last.op = "emit"
  /\ Len(last.trace) >= 2
  /\ handlers.entries[last.trace[1].key + 1].val.kind = "mutate"

\* C9: no step of emit changes the registry (slots, handlers, next index),
\* and two emits of the same value with no subscribe or unsubscribe call
\* between them make the same invocations in the same order.
C9_EmitLeavesRegistry ==
  /\ [][(~AllIdle \/ ~AllIdle') => handlers' = handlers]_vars
  /\ []((last.op = "emit" /\ prev.op = "emit" /\ last.arg = prev.arg) =>
          /\ last.trace = prev.trace
          /\ last.res = prev.res)

C9_Witness ==
  /\ Returned
  /\ prev.op = "emit"
  /\ last.arg = prev.arg
  /\ Len(last.trace) = 2

\* C10: subscribe cannot fail (the slab's free-list head always names the
\* end of the vector or a vacant entry); the key it returns was unoccupied
\* before the call and holds the new handler after it, and every slot
\* occupied before keeps its index and its handler.
C10_SubscribeFrame ==
  /\ [](/\ handlers.next <= Len(handlers.entries)
        /\ handlers.next < Len(handlers.entries) =>
             ~handlers.entries[handlers.next + 1].occ)
  /\ [][SubscribeStep =>
          LET k == last'.key
          IN /\ last'.res = "Ok"
             /\ ~SlabContains(handlers, k)
             /\ SlabContains(handlers', k)
             /\ handlers'.entries[k + 1].val.id = Len(issued')
             /\ OccupiedKeys(handlers') = OccupiedKeys(handlers) \cup {k}
             /\ \A j \in OccupiedKeys(handlers) :
                  handlers'.entries[j + 1].val = handlers.entries[j + 1].val
       ]_vars

C10_Witness ==
  /\ last.op = "subscribe"
  /\ last.key = 0
  /\ okUnsubs >= 1
  /\ Cardinality(OccupiedKeys(handlers)) = 2

\* the slab s holds handler h in some slot
Holds(s, h) == \E k \in OccupiedKeys(s) : s.entries[k + 1].val.id = h

\* the key of h's token was issued before, to an older handler
Reissued(h) == \E g \in HandlerIds : g < h /\ issued[g] = issued[h]

\* C11: tokens carry no generation check.  When a key was issued to h1,
\* unsubscribed, and issued again to h2, an unsubscribe presenting that key
\* (the old token) returns Ok and removes h2 from the registry, and from
\* then on no emit invokes h2.
C11_StaleTokenRemovesNewHandler ==
  /\ [][UnsubscribeStep =>
          \A h \in live :
            (Reissued(h) /\ issued[h] = last'.key) =>
              /\ last'.res = "Ok"
              /\ Holds(handlers, h)
              /\ ~Holds(handlers', h)
              /\ ~SlabContains(handlers', last'.key)]_vars
  /\ [][\A h \in HandlerIds :
          (Reissued(h) /\ ~Holds(handlers, h)) => calls'[h] = calls[h]]_vars
  /\ [](Returned =>
          \A h \in HandlerIds \ live : \A i \in 1..Len(last.trace) :
            last.trace[i].id # h)

C11_Witness ==
  /\ Returned
  /\ prev.op = "unsubscribe"
  /\ \E h \in HandlerIds :
       /\ Reissued(h)
       /\ issued[h] = prev.key
       /\ h \notin live
       /\ h = Len(issued)

\* the calls subscribe(h1), unsubscribe(t1) = Ok, subscribe(h2) have been
\* made, in that order (one handler at a time), and h2 is still subscribed
ScenarioD == Len(issued) = 2 /\ peak = 1 /\ okUnsubs = 1 /\ live = {2}

\* C12 as stated: after subscribe(h1) -> t1, unsubscribe(t1) = Ok,
\* subscribe(h2) -> t2, an emit invokes only h2, once; an unsubscribe
\* presenting t1 is reported as SubscriptionMissing and one presenting t2
\* succeeds.
C12_Original ==
  /\ []((ScenarioD /\ Returned) => Ids(last.trace) = <<2>>)
  /\ [][(UnsubscribeStep /\ ScenarioD /\ last'.key = issued[1]) =>
          last'.res = "SubscriptionMissing"]_vars
  /\ [][(UnsubscribeStep /\ ScenarioD /\ last'.key = issued[2]) =>
          last'.res = "Ok"]_vars

\* C12 amended: after subscribe(h1) -> t1, unsubscribe(t1) = Ok,
\* subscribe(h2) -> t2, an emit invokes only h2, once; t2 carries the key
\* of t1, so an unsubscribe presenting t1 succeeds exactly as one presenting
\* t2 does: it returns Ok and removes h2.
C12_ReuseScenario ==
  /\ [](ScenarioD =>
          /\ issued[1] = issued[2]
          /\ Returned => Ids(last.trace) = <<2>>)
  /\ [][(UnsubscribeStep /\ ScenarioD /\ last'.key \in {issued[1], issued[2]}) =>
          /\ last'.res = "Ok"
          /\ ~Holds(handlers', 2)
          /\ OccupiedKeys(handlers') = {}]_vars

C12_Witness ==
  /\ last.op = "unsubscribe"
  /\ last.res = "Ok"
  /\ Len(issued) = 2
  /\ peak = 1
  /\ okUnsubs = 2
  /\ last.key = issued[1]

\* the handler of trace entry e, called with value x, returns
EntryReturns(e, x) == Invoke(handlers.entries[e.key + 1].val.kind, x).ok

\* the call that finished last is an emit that a handler panic ended
Panicked == last.op = "emit" /\ last.res = "panicked"

\* C13: a handler failure in emit is not isolated.  The emit ends with the
\* failure exactly when a handler failed; the failing handler is the last
\* one invoked, every occupied slot below it was invoked once and returned,
\* no slot above it was invoked, and the registry is as it was before.
C13_FailureAbortsDispatch ==
  /\ [](Returned =>
          \A i \in 1..Len(last.trace) : EntryReturns(last.trace[i], last.arg))
  /\ [](Panicked =>
          LET n == Len(last.trace)
          IN /\ n >= 1
             /\ ~EntryReturns(last.trace[n], last.arg)
             /\ \A i \in 1..(n - 1) : EntryReturns(last.trace[i], last.arg)
             /\ NoRepeats(KeysOf(last.trace))
             /\ Range(KeysOf(last.trace)) =
                  {k \in OccupiedKeys(handlers) : k <= last.trace[n].key})
  /\ [][(\E t \in Threads : pc[t] = "panic" \/ pc'[t] = "panic") =>
          handlers' = handlers]_vars

C13_Witness ==
  /\ Panicked
  /\ Len(last.trace) = 2
  /\ \E k \in OccupiedKeys(handlers) : k > last.trace[2].key

\* the allocated slots of s that are free
FreedKeys(s) == {k \in 0..(Len(s.entries) - 1) : ~s.entries[k + 1].occ}

\* C14: subscribe returns a freed slot index whenever one exists, and
\* otherwise the number of slots allocated so far; so a fresh dispatcher
\* issues the keys 0, 1, 2, ... while no unsubscribe has returned Ok.
C14_SubscribeReusesFreedSlot ==
  /\ [][SubscribeStep =>
          IF FreedKeys(handlers) # {}
            THEN /\ last'.key \in FreedKeys(handlers)
                 /\ Len(handlers'.entries) = Len(handlers.entries)
            ELSE /\ last'.key = Len(handlers.entries)
                 /\ Len(handlers'.entries) = Len(handlers.entries) + 1]_vars
  /\ [](okUnsubs = 0 => issued = [i \in 1..Len(issued) |-> i - 1])

C14_Witness ==
  /\ last.op = "subscribe"
  /\ okUnsubs = 2
  /\ Len(issued) = 3
  /\ FreedKeys(handlers) # {}

\* C15: handlers that are subscribed at the same time occupy different
\* slots, each the slot of its token, and the number of occupied slots is
\* the number of subscribe calls less the unsubscribe calls that returned Ok.
C15_OneSlotPerSubscription ==
  /\ \A g, h \in live : g # h => issued[g] # issued[h]
  /\ \A h \in live :
       /\ SlabContains(handlers, issued[h])
       /\ handlers.entries[issued[h] + 1].val.id = h
  /\ Cardinality(OccupiedKeys(handlers)) = Len(issued) - okUnsubs
  /\ Cardinality(OccupiedKeys(handlers)) = Cardinality(live)

C15_Witness ==
  /\ Cardinality(live) = 2
  /\ okUnsubs = 1
  /\ Len(issued) = 3
  /\ \E h \in live : Reissued(h)

\* the slot of h's token holds the handler the token was issued for
Valid(h) ==
  /\ SlabContains(handlers, issued[h])
  /\ handlers.entries[issued[h] + 1].val.id = h

\* C16: a token is Valid from the subscribe that issues it; it becomes
\* Invalid only by an unsubscribe on its key that returns Ok, which always
\* makes it Invalid; once Invalid it is never Valid again, also when its
\* slot index is issued again.
C16_TokenInvalidatedOnce ==
  /\ [][SubscribeStep => Valid(Len(issued))']_vars
  /\ [][\A h \in HandlerIds :
          /\ ~Valid(h) => ~Valid(h)'
          /\ (Valid(h) /\ ~Valid(h)') =>
               /\ UnsubscribeStep
               /\ last'.res = "Ok"
               /\ last'.key = issued[h]
          /\ (UnsubscribeStep /\ last'.res = "Ok" /\ last'.key = issued[h]) =>
               ~Valid(h)']_vars

C16_Witness ==
  \E g, h \in HandlerIds :
    /\ g < h
    /\ issued[g] = issued[h]
    /\ ~Valid(g)
    /\ Valid(h)
    /\ emits >= 1

\* C20: slot reuse keeps the registry compact: every key ever issued is
\* less than the largest number of handlers subscribed at the same time so
\* far, and no more slots are allocated than that number.
C20_KeysBelowPeak ==
  /\ \A h \in HandlerIds : issued[h] < peak
  /\ Len(handlers.entries) <= peak

C20_Witness ==
  /\ peak = 2
  /\ Len(issued) = 4
  /\ okUnsubs >= 2

\* the first n elements of q
Prefix(q, n) == [i \in 1..n |-> q[i]]

\* C17: with the shared discipline several threads run emit at the same
\* time; under every interleaving each running emit has invoked exactly the
\* first handlers of the ascending slot order, each once and with its own
\* call's arguments, an emit that returns has invoked every occupied slot,
\* and no step of an emit changes the registry.
C17_ConcurrentEmits ==
  /\ [](\A t \in Threads : pc[t] = "emit" =>
          /\ pos[t] <= Len(SlabIter(handlers))
          /\ KeysOf(trace[t]) = Prefix(SlabIter(handlers), pos[t])
          /\ \A i \in 1..Len(trace[t]) :
               /\ trace[t][i].seen = sent[t]
               /\ trace[t][i].id = handlers.entries[trace[t][i].key + 1].val.id)
  /\ [](Returned =>
          /\ KeysOf(last.trace) = SlabIter(handlers)
          /\ \A i \in 1..Len(last.trace) : last.trace[i].seen = last.arg)
  /\ [][(\E t \in Threads : pc[t] # "idle" \/ pc'[t] # "idle") =>
          handlers' = handlers]_vars

C17_Witness ==
  /\ pc[1] = "emit"
  /\ pc[2] = "emit"
  /\ sent[1] # sent[2]
  /\ Len(trace[1]) = 2
  /\ Len(trace[2]) = 1

\* a step that is a call on the second dispatcher
OtherStep ==
  AllIdle /\ AllIdle' /\ last'.op \in {"other.subscribe", "other.unsubscribe"}

\* C18: with two dispatchers, a call on the first leaves the registry of the
\* second unchanged; unsubscribe on the second with a key the first issued
\* returns Ok exactly when the second's slot at that key is occupied, and
\* then vacates that slot of the second, and returns SubscriptionMissing
\* otherwise leaving the second unchanged; in both cases the registry of the
\* first, and so its handler for that token, stays as it was.
C18_DispatchersIndependent ==
  /\ [][~OtherStep => other' = other]_vars
  /\ [][(OtherStep /\ last'.op = "other.unsubscribe"
           /\ last'.key \in Range(issued)) =>
          /\ last'.res = "Ok" <=> SlabContains(other, last'.key)
          /\ last'.res = "Ok" =>
               OccupiedKeys(other') = OccupiedKeys(other) \ {last'.key}
          /\ last'.res # "Ok" =>
               last'.res = "SubscriptionMissing" /\ other' = other
          /\ handlers' = handlers
          /\ \A h \in HandlerIds : Valid(h) => Valid(h)']_vars

C18_Witness ==
  /\ last.op = "other.unsubscribe"
  /\ last.res = "Ok"
  /\ \E h \in live : issued[h] = last.key /\ Valid(h) /\ issued[h] = 1
  /\ OccupiedKeys(other) = {0}

\* C19: an emit call ends: it goes on to return to its caller, or to leave
\* by the panic of a handler, and when no invocation failed it has returned
\* after one invocation per slot occupied at its start; while it runs, its
\* next step is always possible, so it waits for nothing but the handler.
C19_EmitTerminates ==
  /\ (pc[1] = "emit") ~> (pc[1] = "idle" /\ last.op = "emit")
  /\ [](pc[1] = "emit" =>
          /\ Len(trace[1]) = pos[1]
          /\ pos[1] <= Cardinality(OccupiedKeys(handlers))
          /\ (\A i \in 1..Len(trace[1]) : EntryReturns(trace[1][i], sent[1]))
          /\ ENABLED (EmitNext(1) \/ EmitReturn(1)))
  /\ [](pc[1] = "panic" => ENABLED EmitUnwind(1))
  /\ [](Returned => Len(last.trace) = Cardinality(OccupiedKeys(handlers)))
  /\ [][(pc[1] = "emit" /\ pc'[1] = "idle") => Returned']_vars

C19_Witness ==
  /\ Returned
  /\ emits = 2
  /\ Len(last.trace) = 2
  /\ okUnsubs = 0
  /\ last.arg = Expected

====
